---- MODULE Spec2Model ----
(***************************************************************************)
(* A model of the char_count JSON-RPC service: the two routers the         *)
(* repository builds (main.rs `main`, startup.rs `run`), the Json          *)
(* extractor in front of json_rpc_handler, the handler's two match arms    *)
(* and the health check.  Strings are sequences of Unicode code points.    *)
(***************************************************************************)
EXTENDS Integers, Sequences, FiniteSets, TLC

VARIABLES conn, router, mismatchStatus

vars == <<conn, router, mismatchStatus>>

(***************************************************************************)
(* Bounds of the model.                                                    *)
(***************************************************************************)
\* longest some_string drawn from Alphabet (the test strings are added whole)
MaxLen == 3
\* requests in flight at once in SpecConc
NumSlots == 2

(***************************************************************************)
(* Code points.                                                            *)
(***************************************************************************)
\* "O", " ", U+0301 COMBINING ACUTE ACCENT, carriage return, line feed
Alphabet == {79, 32, 769, 13, 10}

\* "Oliver"
Oliver == <<79, 108, 105, 118, 101, 114>>
\* "Olive" U+0301 "r": the string of main.rs's test_other_possibilities
OliverCombining == <<79, 108, 105, 118, 101, 769, 114>>
\* "Olive" U+00C3 U+00C5 "r": the string of routes/json_rpc.rs's test_other_possibilities
OliverMojibake == <<79, 108, 105, 118, 101, 195, 197, 114>>

TestStrings ==
    { <<>>, Oliver, <<32>>, Oliver \o <<32>>, <<32>> \o Oliver,
      <<32>> \o Oliver \o <<32>>, OliverCombining, OliverMojibake }

RECURSIVE SeqsUpTo(_)
SeqsUpTo(n) ==
    IF n = 0 THEN { <<>> }
    ELSE LET shorter == SeqsUpTo(n - 1)
         IN  shorter \cup { Append(s, c) : s \in shorter, c \in Alphabet }

Strings == SeqsUpTo(MaxLen) \cup TestStrings

(***************************************************************************)
(* str::trim: strips the code points with the White_Space property from    *)
(* both ends.                                                              *)
(***************************************************************************)
IsWhitespace(c) ==
    \/ c \in 9..13
    \/ c \in {32, 133, 160, 5760, 8232, 8233, 8239, 8287, 12288}
    \/ c \in 8192..8202

RECURSIVE TrimStart(_)
TrimStart(s) ==
    IF s = <<>> THEN s
    ELSE IF IsWhitespace(Head(s)) THEN TrimStart(Tail(s)) ELSE s

RECURSIVE TrimEnd(_)
TrimEnd(s) ==
    IF s = <<>> THEN s
    ELSE IF IsWhitespace(s[Len(s)]) THEN TrimEnd(SubSeq(s, 1, Len(s) - 1)) ELSE s

TrimStartOnly(s) == TrimStart(s)

NoTrim(s) == s

Trim(s) == TrimEnd(TrimStart(s))

(***************************************************************************)
(* UnicodeSegmentation::graphemes(true): extended grapheme clusters.       *)
(* Grapheme_Cluster_Break classes of the code points the model draws, and  *)
(* the boundary rules that apply to them: GB3 (CR x LF), GB4 and GB5       *)
(* (break after and before Control, CR, LF), GB9 (no break before Extend   *)
(* or ZWJ), GB999 (break everywhere else).  The rules for Hangul,          *)
(* Prepend, SpacingMark, emoji and regional indicators need code points    *)
(* the model does not draw.                                                *)
(***************************************************************************)
GCB(c) ==
    IF c = 13 THEN "CR"
    ELSE IF c = 10 THEN "LF"
    ELSE IF c \in 0..31 \/ c \in 127..159 \/ c \in {173, 8203, 8232, 8233} THEN "Control"
    ELSE IF c \in 768..879 \/ c = 8204 THEN "Extend"
    ELSE IF c = 8205 THEN "ZWJ"
    ELSE "Other"

IsBoundary(prev, next) ==
    IF GCB(prev) = "CR" /\ GCB(next) = "LF" THEN FALSE
    ELSE IF GCB(prev) \in {"Control", "CR", "LF"} THEN TRUE
    ELSE IF GCB(next) \in {"Control", "CR", "LF"} THEN TRUE
    ELSE IF GCB(next) \in {"Extend", "ZWJ"} THEN FALSE
    ELSE TRUE

\* the iterator: each call of next() consumes one cluster
RECURSIVE NextCluster(_)
NextCluster(s) ==
    IF Len(s) <= 1 THEN <<>>
    ELSE IF IsBoundary(s[1], s[2]) THEN Tail(s)
    ELSE NextCluster(Tail(s))

RECURSIVE CountClusters(_)
CountClusters(s) ==
    IF s = <<>> THEN 0 ELSE 1 + CountClusters(NextCluster(s))

CodePointCount(s) == Len(s)

GraphemeCount(s) == CountClusters(s)

\* the count of the char_count arm: trim(), then graphemes(true).count().
\* The cast to i32 changes no count below 2^31.
CharCount(s) == GraphemeCount(Trim(s))

(***************************************************************************)
(* HTTP requests.  A body is a byte length and, when it is JSON text, the  *)
(* members of its object; JSON allows white space between tokens, so any   *)
(* length at or above the members' own is a body of the same JSON value.   *)
(***************************************************************************)
JsonLimit == 4096

MethodNotFoundCode == -32601

Ids == {"00000000-0000-0000-0000-000000000000", "1"}

Versions == {"2.0", "1.0"}

Methods == {"char_count", "wrong", "", "CHAR_COUNT"}

BodyLens == {JsonLimit - 1, JsonLimit, JsonLimit + 1}

\* params shapes: {"some_string": "..."}, the same with one more member,
\* {}, {"some_string": 5}, and a body with no params member
ParamShapes == {"some_string", "some_string_and_more", "empty_object", "number", "absent"}

MalformedBodies ==
    { [syntax |-> "malformed", len |-> n, id |-> "", jsonrpc |-> "", method |-> "",
       pshape |-> "absent", some_string |-> <<>>] : n \in BodyLens }

JsonBodies ==
    { [syntax |-> "json", len |-> n, id |-> i, jsonrpc |-> v, method |-> m,
       pshape |-> p, some_string |-> s] :
         n \in BodyLens, i \in Ids, v \in Versions, m \in Methods,
         p \in {"some_string"}, s \in Strings }
    \cup
    { [syntax |-> "json", len |-> n, id |-> i, jsonrpc |-> v, method |-> m,
       pshape |-> p, some_string |-> <<>>] :
         n \in BodyLens, i \in Ids, v \in Versions, m \in Methods,
         p \in ParamShapes \ {"some_string"} }

Bodies == MalformedBodies \cup JsonBodies

Verbs == {"GET", "POST"}

Paths == {"/", "/health_check", "/nope"}

Requests == [verb : Verbs, path : Paths, body : Bodies]

\* the requests of the repository's tests, with a health check, an unrouted
\* path, an oversized body and a body whose params has no some_string
TestBody(m, s) ==
    [syntax |-> "json", len |-> JsonLimit - 1,
     id |-> "00000000-0000-0000-0000-000000000000", jsonrpc |-> "2.0",
     method |-> m, pshape |-> "some_string", some_string |-> s]

ConcRequests ==
    { [verb |-> v, path |-> "/", body |-> TestBody("char_count", s)] :
          v \in Verbs, s \in {Oliver, <<32>> \o Oliver, OliverCombining} }
    \cup { [verb |-> v, path |-> "/", body |-> TestBody("wrong", Oliver)] : v \in Verbs }
    \cup { [verb |-> "GET", path |-> "/health_check", body |-> TestBody("wrong", Oliver)],
           [verb |-> "POST", path |-> "/nope", body |-> TestBody("wrong", Oliver)] }
    \cup { [verb |-> v, path |-> "/",
            body |-> [TestBody("char_count", Oliver) EXCEPT !.len = JsonLimit + 1]] :
          v \in Verbs }
    \cup { [verb |-> v, path |-> "/",
            body |-> [TestBody("wrong", <<>>) EXCEPT !.pshape = "empty_object"]] :
          v \in Verbs }

(***************************************************************************)
(* The routers.                                                            *)
(***************************************************************************)
Routers == {"main", "startup"}

\* App::new().route(path, guard.to(handler)) of each router
RouteTable(r) ==
    IF r = "main"
    THEN { [path |-> "/", verb |-> "POST", handler |-> "json_rpc_handler"],
           [path |-> "/health_check", verb |-> "GET", handler |-> "health_check"] }
    ELSE { [path |-> "/", verb |-> "GET", handler |-> "json_rpc_handler"],
           [path |-> "/health_check", verb |-> "GET", handler |-> "health_check"] }

Matching(r, req) ==
    { e \in RouteTable(r) : e.path = req.path /\ e.verb = req.verb }

PathKnown(r, req) == \E e \in RouteTable(r) : e.path = req.path

(***************************************************************************)
(* web::Json<CharCountRequest> under JsonConfig::default().limit(4096).    *)
(***************************************************************************)
NoLimitConfigured(body) == body.len > 2097152

Overflows(body) == body.len > JsonLimit

\* serde: every member of CharCountRequest and CharCountParams must be
\* present with its type; unknown members are ignored
MethodOnlyDecodes(body) == body.syntax = "json"

Decodes(body) ==
    /\ body.syntax = "json"
    /\ body.pshape \in {"some_string", "some_string_and_more"}

Decode(body) ==
    [id |-> body.id, jsonrpc |-> body.jsonrpc, method |-> body.method,
     params |-> [some_string |-> body.some_string]]

(***************************************************************************)
(* Responses.                                                              *)
(***************************************************************************)
NoItem == [id |-> "", jsonrpc |-> "", method |-> "", params |-> [some_string |-> <<>>]]

NoRequest == [verb |-> "GET", path |-> "/", body |-> CHOOSE b \in MalformedBodies : b.len = JsonLimit]

EmptyBody == [empty |-> TRUE]

\* the body of a response the framework writes itself
FrameworkBody == [framework |-> TRUE]

NoResponse == [status |-> 0, body |-> EmptyBody]

Idle ==
    [pc |-> "idle", req |-> NoRequest, handler |-> "none", item |-> NoItem,
     arm |-> "none", some_string |-> <<>>, count |-> -1, sent |-> 0,
     resp |-> NoResponse]

CharCountResponse(item, count) ==
    [id |-> item.id, jsonrpc |-> item.jsonrpc, result |-> [count |-> count]]

MethodNotFoundErrorResponse(item) ==
    [error |-> [code |-> MethodNotFoundCode, message |-> "Method not found"],
     id |-> item.id, jsonrpc |-> item.jsonrpc]

Ok(body) == [status |-> 200, body |-> body]

Rejected(status) == [status |-> status, body |-> FrameworkBody]

EchoFixedVersion(item) == [item EXCEPT !.jsonrpc = "2.0"]

\* item.id.clone(), item.jsonrpc.clone()
Echoed(item) == item

\* HttpResponse::Ok().json(response) of the char_count arm
CharCountReply(item, count) == Ok(CharCountResponse(Echoed(item), count))

NotFoundStatusReply(item) ==
    [status |-> 404, body |-> MethodNotFoundErrorResponse(Echoed(item))]

\* HttpResponse::Ok().json(response) of the default arm
MethodNotFoundReply(item) == Ok(MethodNotFoundErrorResponse(Echoed(item)))

(***************************************************************************)
(* Actions: one request in slot s, from arrival to the response.           *)
(***************************************************************************)
Slots == 1..NumSlots

Init ==
    /\ conn = [s \in Slots |-> Idle]
    /\ router \in Routers
    /\ mismatchStatus \in {404, 405}

Receive(s, inputs) ==
    /\ conn[s].pc = "idle"
    /\ \E r \in inputs :
         conn' = [conn EXCEPT ![s] = [Idle EXCEPT !.pc = "routing", !.req = r]]
    /\ UNCHANGED <<router, mismatchStatus>>

\* a route of the table matches: its handler is called
RouteMatch(s) ==
    /\ conn[s].pc = "routing"
    /\ \E e \in Matching(router, conn[s].req) :
         conn' = [conn EXCEPT ![s].handler = e.handler,
                              ![s].pc = IF e.handler = "json_rpc_handler"
                                        THEN "extract" ELSE "health_check"]
    /\ UNCHANGED <<router, mismatchStatus>>

\* no route matches: the default service of the app (404) or, when the path
\* has a resource but no route of it accepts the method, of the resource
\* (404 or 405, by the actix-web version of the build)
RouteNoMatch(s) ==
    /\ conn[s].pc = "routing"
    /\ Matching(router, conn[s].req) = {}
    /\ conn' = [conn EXCEPT ![s].pc = "done",
                            ![s].sent = @ + 1,
                            ![s].resp = Rejected(IF PathKnown(router, conn[s].req)
                                                 THEN mismatchStatus ELSE 404)]
    /\ UNCHANGED <<router, mismatchStatus>>

health_check(s) ==
    /\ conn[s].pc = "health_check"
    /\ conn' = [conn EXCEPT ![s].pc = "done",
                            ![s].sent = @ + 1,
                            ![s].resp = Ok(EmptyBody)]
    /\ UNCHANGED <<router, mismatchStatus>>

ExtractReject(s) ==
    /\ conn[s].pc = "extract"
    /\ Overflows(conn[s].req.body) \/ ~Decodes(conn[s].req.body)
    /\ conn' = [conn EXCEPT ![s].pc = "done",
                            ![s].sent = @ + 1,
                            ![s].resp = Rejected(IF Overflows(conn[s].req.body)
                                                 THEN 413 ELSE 400)]
    /\ UNCHANGED <<router, mismatchStatus>>

ExtractOk(s) ==
    /\ conn[s].pc = "extract"
    /\ ~Overflows(conn[s].req.body)
    /\ Decodes(conn[s].req.body)
    /\ conn' = [conn EXCEPT ![s].pc = "handler",
                            ![s].item = Decode(conn[s].req.body)]
    /\ UNCHANGED <<router, mismatchStatus>>

CaseInsensitiveCharCount(method) == method \in {"char_count", "CHAR_COUNT"}

IsCharCount(method) == method = "char_count"

OtherSlotString(s) == conn[IF s = NumSlots THEN 1 ELSE s + 1].item.params.some_string

\* item.params.some_string of the request being handled
SomeString(s) == conn[s].item.params.some_string

CharCountArm(s) ==
    /\ conn[s].pc = "handler"
    /\ IsCharCount(conn[s].item.method)
    /\ LET some_string == Trim(SomeString(s))
           count == CharCount(SomeString(s))
       IN  conn' = [conn EXCEPT ![s].pc = "done",
                                ![s].arm = "char_count",
                                ![s].some_string = some_string,
                                ![s].count = count,
                                ![s].sent = @ + 1,
                                ![s].resp = CharCountReply(conn[s].item, count)]
    /\ UNCHANGED <<router, mismatchStatus>>

MethodNotFoundArm(s) ==
    /\ conn[s].pc = "handler"
    /\ ~IsCharCount(conn[s].item.method)
    /\ conn' = [conn EXCEPT ![s].pc = "done",
                            ![s].arm = "not_found",
                            ![s].sent = @ + 1,
                            ![s].resp = MethodNotFoundReply(conn[s].item)]
    /\ UNCHANGED <<router, mismatchStatus>>

\* the response is written and the request's values are dropped
Close(s) ==
    /\ conn[s].pc = "done"
    /\ conn' = [conn EXCEPT ![s] = Idle]
    /\ UNCHANGED <<router, mismatchStatus>>

Step(s, inputs) ==
    \/ Receive(s, inputs)
    \/ RouteMatch(s)
    \/ RouteNoMatch(s)
    \/ health_check(s)
    \/ ExtractReject(s)
    \/ ExtractOk(s)
    \/ CharCountArm(s)
    \/ MethodNotFoundArm(s)
    \/ Close(s)

\* one request at a time, every input
Next == Step(1, Requests)

Spec == Init /\ [][Next]_vars

\* NumSlots requests in flight, interleaved step by step
NextConc == \E s \in Slots : Step(s, ConcRequests)

SpecConc == Init /\ [][NextConc]_vars

(***************************************************************************)
(* What the claims speak of.                                               *)
(***************************************************************************)
\* json_rpc_handler ran for the request of slot s and has answered it
Handled(s) == conn[s].pc = "done" /\ conn[s].arm # "none"

\* the request of slot s went to the route of json_rpc_handler and is answered
AnsweredOnRpcRoute(s) == conn[s].pc = "done" /\ conn[s].handler = "json_rpc_handler"

SentString(s) == conn[s].req.body.some_string

\* s without its leading and trailing white space, by positions
Trimmed(s) ==
    LET keep == { i \in 1..Len(s) : ~IsWhitespace(s[i]) }
    IN  IF keep = {} THEN <<>>
        ELSE SubSeq(s, CHOOSE i \in keep : \A j \in keep : i <= j,
                       CHOOSE i \in keep : \A j \in keep : j <= i)

\* the extended grapheme clusters of s, by the positions they start at: a
\* code point continues a cluster when it is the LF of a CR LF pair or a
\* combining mark that follows neither a CR nor a LF
ClusterStarts(s) ==
    { i \in 1..Len(s) :
        \/ i = 1
        \/ ~ \/ s[i - 1] = 13 /\ s[i] = 10
             \/ s[i] \in 768..879 /\ s[i - 1] \notin {10, 13} }

Clusters(s) == Cardinality(ClusterStarts(s))

RemoveAt(s, i) == SubSeq(s, 1, i - 1) \o SubSeq(s, i + 1, Len(s))

IsSuccessEnvelope(b) == DOMAIN b = {"id", "jsonrpc", "result"}

IsErrorEnvelope(b) == DOMAIN b = {"error", "id", "jsonrpc"}

C2_MethodNotFound ==
    \A s \in Slots :
        (Handled(s) /\ conn[s].req.body.method # "char_count") =>
            /\ IsErrorEnvelope(conn[s].resp.body)
            /\ conn[s].resp.body.error = [code |-> -32601, message |-> "Method not found"]
            /\ "result" \notin DOMAIN conn[s].resp.body
            /\ conn[s].arm = "not_found"
            /\ conn[s].count = -1

C2_Witness ==
    \E s \in Slots :
        /\ Handled(s)
        /\ conn[s].req.body.method = "CHAR_COUNT"
        /\ IsErrorEnvelope(conn[s].resp.body)

\* C3: on the success path and on the method-not-found path the response's
\* id and jsonrpc are the request's, whatever they are.
C3_IdAndVersionEchoed ==
    \A s \in Slots :
        Handled(s) =>
            /\ conn[s].resp.body.id = conn[s].req.body.id
            /\ conn[s].resp.body.jsonrpc = conn[s].req.body.jsonrpc

C3_Witness ==
    \E s \in Slots :
        /\ Handled(s)
        /\ conn[s].arm = "not_found"
        /\ conn[s].req.body.jsonrpc = "1.0"
        /\ conn[s].req.body.id = "1"
        /\ conn[s].resp.body.jsonrpc = "1.0"

\* C4: the router the application builds hands a POST to "/" with a valid
\* JSON body to json_rpc_handler, so the request is answered with a JSON-RPC
\* envelope.
C4_PostRootReachesHandler ==
    \A s \in Slots :
        ( /\ conn[s].pc = "done"
          /\ conn[s].req.verb = "POST"
          /\ conn[s].req.path = "/"
          /\ conn[s].req.body.syntax = "json"
          /\ conn[s].req.body.pshape = "some_string"
          /\ conn[s].req.body.len <= 4096 ) =>
            /\ conn[s].arm # "none"
            /\ IsSuccessEnvelope(conn[s].resp.body) \/ IsErrorEnvelope(conn[s].resp.body)

\* C5 as claimed: a request whose method is not "char_count" gets the
\* method-not-found envelope whatever the shape of its params.
C5_AnyParamsShape ==
    \A s \in Slots :
        ( /\ AnsweredOnRpcRoute(s)
          /\ conn[s].req.body.syntax = "json"
          /\ conn[s].req.body.len <= 4096
          /\ conn[s].req.body.method # "char_count" ) =>
            /\ conn[s].resp.status = 200
            /\ IsErrorEnvelope(conn[s].resp.body)

\* C5 as amended: a request whose method is not "char_count" gets the
\* method-not-found envelope whatever the value of some_string, provided
\* its params is an object with a string some_string; params of any other
\* shape is rejected with 400 before the method is looked at.
C5_ParamsDecodedFirst ==
    \A s \in Slots :
        ( /\ AnsweredOnRpcRoute(s)
          /\ conn[s].req.body.syntax = "json"
          /\ conn[s].req.body.len <= 4096
          /\ conn[s].req.body.method # "char_count" ) =>
            IF conn[s].req.body.pshape \in {"some_string", "some_string_and_more"}
            THEN /\ conn[s].resp.status = 200
                 /\ IsErrorEnvelope(conn[s].resp.body)
                 /\ conn[s].resp.body.error.code = -32601
            ELSE /\ conn[s].resp.status = 400
                 /\ conn[s].arm = "none"
                 /\ conn[s].resp.body = FrameworkBody

C5_Witness ==
    \E s \in Slots :
        /\ AnsweredOnRpcRoute(s)
        /\ conn[s].req.body.method = "wrong"
        /\ conn[s].req.body.pshape = "empty_object"
        /\ conn[s].req.body.len <= 4096
        /\ conn[s].resp.status = 400

\* C6: every request that reaches json_rpc_handler is answered with status
\* 200, on the success arm and on the method-not-found arm.
C6_HandlerAnswers200 ==
    \A s \in Slots : conn[s].arm # "none" => conn[s].resp.status = 200

C6_Witness ==
    \E s \in Slots :
        /\ Handled(s)
        /\ conn[s].arm = "not_found"
        /\ conn[s].resp.status = 200

\* C7: a base character followed by a combining mark counts as one unit:
\* the count is that of the string without the mark, and "Olive" U+0301 "r"
\* counts 6.
C7_CombiningMarkJoinsBase ==
    \A s \in Slots :
        (Handled(s) /\ conn[s].arm = "char_count") =>
            /\ SentString(s) = OliverCombining => conn[s].resp.body.result.count = 6
            /\ \A i \in 2..Len(SentString(s)) :
                   ( /\ SentString(s)[i] = 769
                     /\ GCB(SentString(s)[i - 1]) = "Other"
                     /\ ~IsWhitespace(SentString(s)[i - 1]) ) =>
                       conn[s].resp.body.result.count
                           = Clusters(Trimmed(RemoveAt(SentString(s), i)))

C7_Witness ==
    \E s \in Slots :
        /\ Handled(s)
        /\ SentString(s) = OliverCombining
        /\ conn[s].resp.body.result.count = 6

\* C8: the count for s is the count for trim(s), white space added at
\* either end never changes it, and white space between two code points
\* that are not white space is counted.
C8_TrimInvariance ==
    \A s \in Slots :
        (Handled(s) /\ conn[s].arm = "char_count") =>
            LET str == SentString(s)
                n == conn[s].resp.body.result.count
            IN  /\ n = CharCount(Trimmed(str))
                /\ \A w \in {32, 13, 10, 9, 160} :
                       /\ CharCount(<<w>> \o str) = n
                       /\ CharCount(str \o <<w>>) = n
                /\ \A i \in 2..(Len(str) - 1) :
                       ( /\ IsWhitespace(str[i])
                         /\ ~IsWhitespace(str[i - 1])
                         /\ ~IsWhitespace(str[i + 1]) ) =>
                           n > CharCount(RemoveAt(str, i))

C8_Witness ==
    \E s \in Slots :
        /\ Handled(s)
        /\ SentString(s) = <<32>> \o Oliver \o <<32>>
        /\ conn[s].resp.body.result.count = 6

\* C9: json_rpc_handler runs only for a body of at most 4096 bytes that
\* decodes into the request shape; a larger or undecodable body sent to its
\* route is answered by the framework with a status other than 200 and no
\* envelope.
C9_OnlyDecodedBodiesWithinLimit ==
    \A s \in Slots :
        LET b == conn[s].req.body
            fits == /\ b.len <= 4096
                    /\ b.syntax = "json"
                    /\ b.pshape \in {"some_string", "some_string_and_more"}
        IN  /\ (conn[s].pc = "handler" \/ conn[s].arm # "none") => fits
            /\ (AnsweredOnRpcRoute(s) /\ ~fits) =>
                   /\ conn[s].resp.status \in {400, 413}
                   /\ conn[s].resp.body = FrameworkBody
                   /\ conn[s].arm = "none"

C9_Witness ==
    \E s \in Slots :
        /\ AnsweredOnRpcRoute(s)
        /\ conn[s].req.body.len = 4097
        /\ conn[s].req.body.syntax = "json"
        /\ conn[s].req.body.pshape = "some_string"
        /\ conn[s].resp.status = 413

\* C10: with requests handled side by side, in any interleaving and after
\* any earlier requests, each request is answered exactly once and two
\* requests with equal fields get equal responses.
C10_IndependentRequests ==
    /\ \A s \in Slots : conn[s].sent = (IF conn[s].pc = "done" THEN 1 ELSE 0)
    /\ \A s, t \in Slots :
           (conn[s].pc = "done" /\ conn[t].pc = "done" /\ conn[s].req = conn[t].req)
               => conn[s].resp = conn[t].resp

C10_Witness ==
    \E s, t \in Slots :
        /\ s # t
        /\ Handled(s) /\ Handled(t)
        /\ conn[s].req = conn[t].req
        /\ conn[s].arm = "char_count"
        /\ conn[s].resp.body.result.count = 6

====
